---- MODULE Spec2Model ----
(***************************************************************************)
(* The conversation message graph and the generation engine of llama.ui:   *)
(* the chat context of src/src/App.tsx (sendMessage, generateMessage,      *)
(* stopGenerating, replaceMessage, replaceMessageAndGenerate), the request *)
(* normalisation of src/src/api/inference.ts and src/src/utils/api.ts, and *)
(* the message store the context calls (StorageUtils).                     *)
(***************************************************************************)
EXTENDS Integers, Sequences, FiniteSets, TLC

\* ------------------------------------------------------------------ bounds
MaxConvs == 2
MaxSessions == 2
MaxClock == 2
MaxContent == 2
MaxExtras == 2
MaxDeltas == 2

\* ------------------------------------------------------------- value sets
ConvIds == 1..MaxConvs
SessionIds == 1..MaxSessions
\* `content: string | null`: Null stands for the JavaScript null; it is no text
\* a user or the endpoint can supply.
Null == "<null>"
\* texts a caller passes to sendMessage: one accepted, one whitespace-only
Texts == {"hi", " "}
\* text of a delta event: "" is an event that carries no content
Deltas == {"", "a"}
\* id of the synthetic root node of a conversation
RootId == 0

\* attachments (MessageExtra): `extra` may be absent (undefined)
NoExtra == [present |-> FALSE, items |-> <<>>]
Extra(items) == [present |-> TRUE, items |-> items]
CtxAtt == [type |-> "context", name |-> "", content |-> "ctx", mimeType |-> ""]
TextAtt == [type |-> "textFile", name |-> "f.txt", content |-> "body", mimeType |-> ""]
ImageAtt == [type |-> "imageFile", name |-> "i.png", content |-> "data:image/png;base64,AA", mimeType |-> ""]
WavAtt == [type |-> "audioFile", name |-> "s.wav", content |-> "UklG", mimeType |-> "audio/x-wav"]
Mp3Att == [type |-> "audioFile", name |-> "s.mp3", content |-> "SUQz", mimeType |-> "audio/mpeg"]
OggAtt == [type |-> "audioFile", name |-> "s.ogg", content |-> "T2dn", mimeType |-> "audio/ogg"]
VideoAtt == [type |-> "videoFile", name |-> "v.mp4", content |-> "AAAA", mimeType |-> "video/mp4"]
\* the attachment lists the callers of the chat context pass
ExtraInputs == {NoExtra, Extra(<<VideoAtt>>)}

VARIABLES clock, convs, msgs, pendingMessages, aborts, sess, last, watch, nin, nout, now, tables, txn, reqs, devs, otps, otpSeq, users, verifs, logins

vars == <<clock, convs, msgs, pendingMessages, aborts, sess, last, watch, nin, nout, now, tables, txn, reqs, devs, otps, otpSeq, users, verifs, logins>>
chatVars == <<clock, convs, msgs, pendingMessages, aborts, sess, last>>
\* the synchronization backend (src/backend): the server clock, the tables of
\* the database, the transaction open on its one connection, the sync
\* requests in progress and the devices that send them
\* the login routes (src/unnamed/part_001): the otps table and its
\* AUTOINCREMENT counter, the users table, the verify-otp requests in
\* progress, and the logins granted so far
authVars == <<otps, otpSeq, users, verifs, logins>>
backendVars == <<now, tables, txn, reqs, devs, authVars>>
\* what the chat context never writes: the switch of the history variables,
\* the variables of the request-building specification and the backend
normVars == <<watch, nin, nout, backendVars>>

\* ------------------------------------------------------- string helpers
\* pattern.test(s) for a literal pattern: s has p as a substring
Contains(s, p) == \E i \in 1..(Len(s) - Len(p) + 1) : SubSeq(s, i, i + Len(p) - 1) = p
\* content.trim().length === 0
IsBlank(s) == \A i \in 1..Len(s) : SubSeq(s, i, i) = " "

\* ------------------------------------------------------ request building
ExpandExtra(e) == CASE e.type = "context" -> [type |-> "text", text |-> e.content]
                    [] e.type = "textFile" -> [type |-> "text", text |-> "File: " \o e.name \o "\nContent:\n\n" \o e.content]
                    [] e.type = "imageFile" -> [type |-> "image_url", url |-> e.content]
                    [] e.type = "audioFile" -> [type |-> "input_audio", data |-> e.content, format |-> IF Contains(e.mimeType, "wav") THEN "wav" ELSE "mp3"]
                    [] OTHER -> [type |-> "throw", text |-> "Unknown extra type"]

\* a variant that puts the user's text before the attachments
NormalizeOneTextFirst(msg) == IF msg.role # "user" \/ ~msg.extra.present THEN [role |-> msg.role, parts |-> FALSE, content |-> msg.content, arr |-> <<>>] ELSE [role |-> msg.role, parts |-> TRUE, content |-> Null, arr |-> <<[type |-> "text", text |-> msg.content]>> \o [i \in 1..Len(msg.extra.items) |-> ExpandExtra(msg.extra.items[i])]]

\* one message of normalizeMsgsForAPI (src/src/api/inference.ts): `parts` tells
\* whether content is the content array or the message's own content
NormalizeOneFlat(msg) == [role |-> msg.role, parts |-> FALSE, content |-> msg.content, arr |-> <<>>]
NormalizeOne(msg) == IF msg.role # "user" \/ ~msg.extra.present THEN NormalizeOneFlat(msg) ELSE [role |-> msg.role, parts |-> TRUE, content |-> Null, arr |-> [i \in 1..Len(msg.extra.items) |-> ExpandExtra(msg.extra.items[i])] \o <<[type |-> "text", text |-> msg.content]>>]

\* `throw new Error('Unknown extra type')` anywhere in the map
Throws(api) == \E i \in 1..Len(api) : \E j \in 1..Len(api[i].arr) : api[i].arr[j].type = "throw"
normalizeMsgsForAPI(messages) == LET api == [i \in 1..Len(messages) |-> NormalizeOne(messages[i])] IN [ok |-> ~Throws(api), messages |-> IF Throws(api) THEN <<>> ELSE api]

\* the copy of the same function in src/src/utils/api.ts
UtilsExpandExtra(e) == CASE e.type = "context" -> [type |-> "text", text |-> e.content]
                         [] e.type = "textFile" -> [type |-> "text", text |-> "File: " \o e.name \o "\nContent:\n\n" \o e.content]
                         [] e.type = "imageFile" -> [type |-> "image_url", url |-> e.content]
                         [] e.type = "audioFile" -> [type |-> "input_audio", data |-> e.content, format |-> IF Contains(e.mimeType, "wav") THEN "wav" ELSE "mp3"]
                         [] OTHER -> [type |-> "throw", text |-> "Unknown extra type"]
UtilsNormalizeOne(msg) == IF msg.role # "user" \/ ~msg.extra.present THEN [role |-> msg.role, parts |-> FALSE, content |-> msg.content, arr |-> <<>>] ELSE [role |-> msg.role, parts |-> TRUE, content |-> Null, arr |-> [i \in 1..Len(msg.extra.items) |-> UtilsExpandExtra(msg.extra.items[i])] \o <<[type |-> "text", text |-> msg.content]>>]
utilsNormalizeMsgsForAPI(messages) == LET api == [i \in 1..Len(messages) |-> UtilsNormalizeOne(messages[i])] IN [ok |-> ~Throws(api), messages |-> IF Throws(api) THEN <<>> ELSE api]

\* ------------------------------------------------------------ the store
\* msgs[c] maps a message id to the message; a conversation that does not
\* exist has no messages
NoMsgs == <<>>
Ids(c) == DOMAIN msgs[c]
NewMsg(id, c, role, content, extra, parent) == [id |-> id, convId |-> c, role |-> role, content |-> content, extra |-> extra, parent |-> parent, children |-> <<>>]
RootMsg(c) == [id |-> RootId, convId |-> c, role |-> "root", content |-> "", extra |-> NoExtra, parent |-> -1, children |-> <<>>]

\* StorageUtils.appendMsg(msg, parentNodeId): registers msg as the last child
\* of its parent; an id already present, a missing parent or a missing
\* conversation makes the write fail and leaves the store as it was
CanAppend(store, c, id, parent) == parent \in DOMAIN store[c] /\ id \notin DOMAIN store[c]
appendMsg(store, msg, parent) == IF CanAppend(store, msg.convId, msg.id, parent) THEN [store EXCEPT ![msg.convId] = [i \in DOMAIN @ |-> IF i = parent THEN [@[i] EXCEPT !.children = Append(@, msg.id)] ELSE @[i]] @@ (msg.id :> [msg EXCEPT !.parent = parent, !.children = <<>>])] ELSE store

\* StorageUtils.filterByLeafNodeId(msgs, leafNodeId, false): the chain from the
\* root (excluded) to the leaf, in root-to-leaf order; a leaf that is not in
\* the store falls back to the node reached by following last children
RECURSIVE LastLeaf(_, _)
LastLeaf(m, id) == IF Len(m[id].children) = 0 THEN id ELSE LastLeaf(m, m[id].children[Len(m[id].children)])
RECURSIVE ChainTo(_, _)
ChainTo(m, id) == IF id \notin DOMAIN m \/ m[id].role = "root" THEN <<>> ELSE Append(ChainTo(m, m[id].parent), m[id])
filterByLeafNodeId(m, leaf) == IF leaf \in DOMAIN m THEN ChainTo(m, leaf) ELSE ChainTo(m, LastLeaf(m, RootId))

\* ------------------------------------------------------- React state maps
\* setPending(convId, null) / setAbort(convId, null): delete the key
Without(f, c) == [k \in DOMAIN f \ {c} |-> f[k]]
\* setPending(convId, msg) / setAbort(convId, controller)
With(f, c, v) == [k \in DOMAIN f \cup {c} |-> IF k = c THEN v ELSE f[k]]
NoDraft == [id |-> -1, content |-> Null, parent |-> -1]
setPending(p, c, pendingMsg) == IF pendingMsg = NoDraft THEN Without(p, c) ELSE With(p, c, pendingMsg)
isGenerating(c) == c \in DOMAIN pendingMessages

\* ------------------------------------------------------------- sessions
\* one call of generateMessage; pc is the await it is suspended at
\* an error frame of the event stream: a data chunk with an error field
\* ("chunk") or an 'error:' line ("line"); its message may be absent (Null) or
\* empty
FrameMessages == {Null, "", "overloaded"}
Frames == [kind : {"chunk", "line"}, message : FrameMessages]
NoFrame == [kind |-> "none", message |-> Null]
\* `chunk.error?.message || 'Unknown error'`, `data.message || 'Unknown error'`
ErrorMessage(f) == IF f.message = Null \/ f.message = "" THEN "Unknown error" ELSE f.message
IdleSession == [pc |-> "idle", op |-> "none", conv |-> 0, leaf |-> -1, pendingId |-> -1, content |-> Null, aborted |-> FALSE, requested |-> FALSE, reason |-> "none", stopped |-> FALSE, commits |-> 0, ret |-> "none", appended |-> FALSE, deltas |-> <<>>, frame |-> NoFrame, detail |-> "none", model |-> Null, timings |-> Null]
Free(s) == sess[s].pc = "idle" /\ \A t \in SessionIds : t < s => sess[t].pc # "idle"
Draft(s) == [id |-> sess[s].pendingId, content |-> sess[s].content, parent |-> sess[s].leaf]

InitChat == /\ clock = 1
            /\ convs = {}
            /\ msgs = [c \in ConvIds |-> NoMsgs]
            /\ pendingMessages = <<>>
            /\ aborts = <<>>
            /\ sess = [s \in SessionIds |-> IdleSession]
            /\ last = "none"

NotRun == [done |-> FALSE, api |-> [ok |-> FALSE, messages |-> <<>>], utils |-> [ok |-> FALSE, messages |-> <<>>]]
\* the backend before any request: an empty database, no transaction, two
\* devices of one user that never synced
DeviceIds == {1, 2}
EmptyTables == [conversations |-> <<>>, messages |-> <<>>]
NoTxn == [active |-> FALSE, saved |-> EmptyTables]
IdleReq == [pc |-> "idle", queries |-> <<>>, k |-> 0, last_sync_timestamp |-> 0, newSyncTimestamp |-> 0, serverConversations |-> {}]
NewDevice(u) == [user |-> u, sent |-> 0, lastSync |-> 0, seen |-> {}, accepted |-> {}]
VerifyIds == {1, 2}
IdleVerify == [pc |-> "idle", email |-> "", otp |-> "", record |-> 0]
AuthOff == /\ otps = <<>>
           /\ otpSeq = 0
           /\ users = {}
           /\ verifs = [v \in VerifyIds |-> IdleVerify]
           /\ logins = <<>>
BackendOff == /\ AuthOff
              /\ now = 1
              /\ tables = EmptyTables
              /\ txn = NoTxn
              /\ reqs = [d \in DeviceIds |-> IdleReq]
              /\ devs = [d \in DeviceIds |-> NewDevice(1)]
Init == InitChat /\ BackendOff /\ watch = {} /\ nin = <<>> /\ nout = NotRun

\* Date.now() advances
Tick == /\ clock < MaxClock
        /\ clock' = clock + 1
        /\ last' = "none"
        /\ UNCHANGED <<convs, msgs, pendingMessages, aborts, sess, normVars>>

\* --------------------------------------------------------- generateMessage
\* generateMessage up to its first await: the isGenerating guard, then the
\* session waits for getOneConversation / getMessages
\* `appended` remembers whether the caller's own appendMsg took effect
generateMessage(s, c, leaf, op, appended) == IF isGenerating(c) THEN sess' = sess ELSE sess' = [sess EXCEPT ![s] = [IdleSession EXCEPT !.pc = "starting", !.op = op, !.conv = c, !.leaf = leaf, !.appended = appended]]

\* what the caller of generateMessage gets when it throws / returns
Thrown(s) == IF sess[s].op = "send" THEN "false" ELSE "throw"
Returned(s) == IF sess[s].op = "send" THEN "true" ELSE "void"

\* a variant whose catch block swallows every error and falls through to the
\* commit, as it does for an AbortError
RethrowFallsThrough(s) == [sess EXCEPT ![s].pc = "committing", ![s].reason = "error"]

\* the catch block for an error that is not an AbortError: retract the draft,
\* toast, rethrow
Rethrow(s) == [sess EXCEPT ![s].pc = "failed", ![s].reason = "error", ![s].ret = Thrown(s)]

\* generateMessage from setAbort to `await fetch`: registers the controller,
\* publishes the draft, builds the request; normalizeMsgsForAPI may throw
Begin(s) == /\ sess[s].pc = "starting"
            /\ LET c == sess[s].conv
                   api == normalizeMsgsForAPI(filterByLeafNodeId(msgs[c], sess[s].leaf))
                   pendingMsg == [id |-> clock + 1, content |-> Null, parent |-> sess[s].leaf]
               IN /\ aborts' = With(aborts, c, s)
                  /\ IF api.ok
                       THEN /\ pendingMessages' = setPending(pendingMessages, c, pendingMsg)
                            /\ sess' = [sess EXCEPT ![s].pc = "fetching", ![s].pendingId = clock + 1, ![s].requested = TRUE]
                       ELSE /\ pendingMessages' = setPending(setPending(pendingMessages, c, pendingMsg), c, NoDraft)
                            /\ sess' = [Rethrow(s) EXCEPT ![s].pendingId = clock + 1]
                  /\ last' = "none"
            /\ UNCHANGED <<clock, convs, msgs, normVars>>

\* the response arrives with status 200
FetchOk(s) == /\ sess[s].pc = "fetching"
              /\ ~sess[s].aborted
              /\ sess' = [sess EXCEPT ![s].pc = "streaming"]
              /\ last' = "none"
              /\ UNCHANGED <<clock, convs, msgs, pendingMessages, aborts, normVars>>

\* fetch rejects (network) or answers with a status other than 200
FetchFail(s) == /\ sess[s].pc = "fetching"
                /\ ~sess[s].aborted
                /\ pendingMessages' = setPending(pendingMessages, sess[s].conv, NoDraft)
                /\ sess' = Rethrow(s)
                /\ last' = "none"
                /\ UNCHANGED <<clock, convs, msgs, aborts, normVars>>

\* the model identifier and the timings an event may carry ("" for none):
\* `if (chunk.model) pendingMsg.model = chunk.model`, and the same for the
\* timings; they are enumerated when `watch` names "meta", for the events of
\* the first session
NoMeta == [model |-> "", timings |-> ""]
Metas == [model : {"", "m1", "m2"}, timings : {"", "t1"}]
MetaInputs(s) == IF "meta" \in watch /\ s = 1 THEN Metas ELSE {NoMeta}
\* one iteration of `for await (const chunk of chunks)` with a delta d;
\* deltas is a history variable (kept when `watch` names it, for up to
\* MaxDeltas events): the deltas of the events consumed so far
Accumulate(content, d) == IF d # "" THEN (IF content = Null THEN "" ELSE content) \o d ELSE content
\* a variant of the loop body that stores the draft at every event
ChunkPersists(s, d, meta) == /\ sess[s].pc = "streaming"
                             /\ Len(Accumulate(sess[s].content, d)) <= MaxContent \/ Accumulate(sess[s].content, d) = Null
                             /\ sess' = [sess EXCEPT ![s].content = Accumulate(@, d)]
                             /\ pendingMessages' = setPending(pendingMessages, sess[s].conv, [Draft(s) EXCEPT !.content = Accumulate(@, d)])
                             /\ msgs' = IF Accumulate(sess[s].content, d) = Null THEN msgs ELSE appendMsg(msgs, NewMsg(sess[s].pendingId, sess[s].conv, "assistant", Accumulate(sess[s].content, d), NoExtra, sess[s].leaf), sess[s].leaf)
                             /\ last' = "none"
                             /\ UNCHANGED <<clock, convs, aborts, normVars>>
Chunk(s, d, meta) == /\ sess[s].pc = "streaming"
                     /\ Len(Accumulate(sess[s].content, d)) <= MaxContent \/ Accumulate(sess[s].content, d) = Null
                     /\ ("deltas" \in watch) => Len(sess[s].deltas) < MaxDeltas
                     /\ sess' = [sess EXCEPT ![s].content = Accumulate(@, d), ![s].deltas = IF "deltas" \in watch THEN Append(@, d) ELSE @,
                                             ![s].model = IF meta.model # "" THEN meta.model ELSE @,
                                             ![s].timings = IF meta.timings # "" THEN meta.timings ELSE @]
                     /\ pendingMessages' = setPending(pendingMessages, sess[s].conv, [Draft(s) EXCEPT !.content = Accumulate(@, d)])
                     /\ last' = "none"
                     /\ UNCHANGED <<clock, convs, msgs, aborts, normVars>>

\* a variant of the loop that notes an error frame and goes on consuming
StreamErrorSkipped(s, f) == /\ sess[s].pc = "streaming"
                            /\ sess[s].frame = NoFrame
                            /\ pendingMessages' = pendingMessages
                            /\ sess' = [sess EXCEPT ![s].frame = IF "detail" \in watch THEN f ELSE @]
                            /\ last' = "none"
                            /\ UNCHANGED <<clock, convs, msgs, aborts, normVars>>
\* the stream delivers the error frame f: getSSEStreamAsync throws for an
\* 'error:' line, the loop body for a chunk with an error field; the catch
\* block retracts the draft, shows the message of the error and rethrows (a
\* failed read takes the same path with the message of its exception).
\* frame and detail are history variables (kept when `watch` names "detail"):
\* the frame that ended the session and the message shown
StreamError(s, f) == /\ sess[s].pc = "streaming"
                     /\ pendingMessages' = setPending(pendingMessages, sess[s].conv, NoDraft)
                     /\ sess' = [Rethrow(s) EXCEPT ![s].frame = IF "detail" \in watch THEN f ELSE @, ![s].detail = IF "detail" \in watch THEN ErrorMessage(f) ELSE @]
                  /\ last' = "none"
                  /\ UNCHANGED <<clock, convs, msgs, aborts, normVars>>

\* the stream is exhausted: the loop ends and the commit is awaited
StreamEnd(s) == /\ sess[s].pc = "streaming"
                /\ sess' = [sess EXCEPT ![s].pc = "committing", ![s].reason = "end"]
                /\ last' = "none"
                /\ UNCHANGED <<clock, convs, msgs, pendingMessages, aborts, normVars>>

\* the AbortError reaches the awaiting fetch or read: the catch block retracts
\* the draft and falls through to the commit
AbortArrive(s) == /\ sess[s].pc \in {"fetching", "streaming"}
                  /\ sess[s].aborted
                  /\ pendingMessages' = setPending(pendingMessages, sess[s].conv, NoDraft)
                  /\ sess' = [sess EXCEPT ![s].pc = "committing", ![s].reason = "abort"]
                  /\ last' = "none"
                  /\ UNCHANGED <<clock, convs, msgs, aborts, normVars>>

\* a variant of the commit that stores the draft without registering it with
\* its parent
CommitUnlisted(s) == /\ sess[s].pc = "committing"
                     /\ msgs' = IF sess[s].content = Null THEN msgs ELSE [msgs EXCEPT ![sess[s].conv] = @ @@ (sess[s].pendingId :> NewMsg(sess[s].pendingId, sess[s].conv, "assistant", sess[s].content, NoExtra, sess[s].leaf))]
                     /\ pendingMessages' = setPending(pendingMessages, sess[s].conv, NoDraft)
                     /\ sess' = [sess EXCEPT ![s].pc = "done", ![s].ret = Returned(s), ![s].commits = IF sess[s].content = Null THEN @ ELSE @ + 1]
                     /\ last' = "none"
                     /\ UNCHANGED <<clock, convs, aborts, normVars>>

\* a variant of the commit without the test of line 492: a draft with no
\* content is stored as well
CommitAlways(s) == /\ sess[s].pc = "committing"
                   /\ msgs' = appendMsg(msgs, NewMsg(sess[s].pendingId, sess[s].conv, "assistant", sess[s].content, NoExtra, sess[s].leaf), sess[s].leaf)
                   /\ pendingMessages' = setPending(pendingMessages, sess[s].conv, NoDraft)
                   /\ sess' = [sess EXCEPT ![s].pc = "done", ![s].ret = Returned(s), ![s].commits = @ + 1]
                   /\ last' = "none"
                   /\ UNCHANGED <<clock, convs, aborts, normVars>>

\* lines 492-496: append the draft if it has content, retract it, return;
\* a failed append leaves generateMessage by the exception
CommitDraft(s) == NewMsg(sess[s].pendingId, sess[s].conv, "assistant", sess[s].content, NoExtra, sess[s].leaf)
Commit(s) == /\ sess[s].pc = "committing"
             /\ LET c == sess[s].conv
                    skip == sess[s].content = Null
                    ok == CanAppend(msgs, c, sess[s].pendingId, sess[s].leaf)
                IN /\ msgs' = IF skip THEN msgs ELSE appendMsg(msgs, CommitDraft(s), sess[s].leaf)
                   /\ IF skip \/ ok
                        THEN /\ pendingMessages' = setPending(pendingMessages, c, NoDraft)
                             /\ sess' = [sess EXCEPT ![s].pc = "done", ![s].ret = Returned(s), ![s].commits = IF skip THEN @ ELSE @ + 1]
                        ELSE /\ pendingMessages' = pendingMessages
                             /\ sess' = [sess EXCEPT ![s].pc = "crashed", ![s].ret = Thrown(s)]
                   /\ last' = "none"
             /\ UNCHANGED <<clock, convs, aborts, normVars>>

\* ------------------------------------------------------- public functions
\* sendMessage(convId, leafNodeId, content, extra): cIn = 0 is convId null (a
\* new conversation is created, its root becomes the leaf)
\* `last` is what the call made by the latest step returned at once: "false"
\* for the `return false` of sendMessage's guard, "none" after any other step.
\* It is a history variable, kept only when `watch` names it.
SendGuard(cIn, content) == isGenerating(cIn) \/ IsBlank(content)
sendMessage(cIn, leafIn, content, extra) ==
    IF SendGuard(cIn, content)
      THEN /\ last' = IF "last" \in watch THEN "false" ELSE "none"
           /\ UNCHANGED <<clock, convs, msgs, pendingMessages, aborts, sess, normVars>>
      ELSE /\ \E s \in SessionIds :
                /\ Free(s)
                /\ cIn = 0 => Cardinality(convs) < MaxConvs
                /\ LET c == IF cIn = 0 THEN Cardinality(convs) + 1 ELSE cIn
                       leaf == IF cIn = 0 THEN RootId ELSE leafIn
                       store == IF cIn = 0 THEN [msgs EXCEPT ![c] = (RootId :> RootMsg(c))] ELSE msgs
                   IN /\ convs' = convs \cup {c}
                      /\ msgs' = appendMsg(store, NewMsg(clock, c, "user", content, extra, leaf), leaf)
                      /\ generateMessage(s, c, clock, "send", CanAppend(store, c, clock, leaf))
                      /\ last' = "none"
           /\ UNCHANGED <<clock, pendingMessages, aborts, normVars>>

\* a variant of stopGenerating that empties the pending map and aborts every
\* controller
stopGeneratingAll(c) == /\ pendingMessages' = <<>>
                        /\ sess' = [s \in SessionIds |-> [sess[s] EXCEPT !.aborted = @ \/ (sess[s].pc \in {"fetching", "streaming"})]]
                        /\ last' = "none"
                        /\ UNCHANGED <<clock, convs, msgs, aborts, normVars>>

\* stopGenerating(convId): retract the draft, abort the registered controller.
\* stopped is a history variable (kept when `watch` names it): stop was called
\* for the conversation of a session that was streaming and had accumulated
\* content
Abort(s, c) == c \in DOMAIN aborts /\ aborts[c] = s /\ sess[s].pc \in {"fetching", "streaming"}
InFlight(s, c) == "stop" \in watch /\ sess[s].conv = c /\ sess[s].pc = "streaming" /\ sess[s].content # Null
stopGenerating(c) == /\ pendingMessages' = setPending(pendingMessages, c, NoDraft)
                     /\ sess' = [s \in SessionIds |-> [sess[s] EXCEPT !.aborted = @ \/ Abort(s, c), !.stopped = @ \/ InFlight(s, c)]]
                     /\ last' = "none"
                     /\ UNCHANGED <<clock, convs, msgs, aborts, normVars>>

\* a variant that overwrites the content of the edited message
replaceMessageInPlace(c, m, content) ==
    /\ m \in Ids(c)
    /\ msgs[c][m].role # "root"
    /\ IF isGenerating(c) \/ content = Null
         THEN msgs' = msgs
         ELSE msgs' = [msgs EXCEPT ![c][m].content = content]
    /\ last' = "none"
    /\ UNCHANGED <<clock, convs, pendingMessages, aborts, sess, normVars>>

\* replaceMessage(convId, msg, content): the edit of an assistant reply
replaceMessage(c, m, content) ==
    /\ m \in Ids(c)
    /\ msgs[c][m].role # "root"
    /\ IF isGenerating(c) \/ content = Null
         THEN msgs' = msgs
         ELSE msgs' = appendMsg(msgs, NewMsg(clock, c, msgs[c][m].role, content, msgs[c][m].extra, msgs[c][m].parent), msgs[c][m].parent)
    /\ last' = "none"
    /\ UNCHANGED <<clock, convs, pendingMessages, aborts, sess, normVars>>

\* replaceMessageAndGenerate(convId, msg, content, extra): the edit of a user
\* turn (content given) or the regeneration of a reply (content null)
replaceMessageAndGenerate(c, m, content, extra) ==
    /\ m \in Ids(c)
    /\ msgs[c][m].role # "root"
    /\ IF isGenerating(c)
         THEN /\ last' = "none"
              /\ UNCHANGED <<msgs, sess>>
         ELSE \E s \in SessionIds :
              /\ Free(s)
              /\ msgs' = IF content # Null THEN appendMsg(msgs, NewMsg(clock, c, msgs[c][m].role, content, extra, msgs[c][m].parent), msgs[c][m].parent) ELSE msgs
              /\ generateMessage(s, c, IF content # Null THEN clock ELSE msgs[c][m].parent, IF content # Null THEN "edit" ELSE "regen", content # Null /\ CanAppend(msgs, c, clock, msgs[c][m].parent))
              /\ last' = "none"
    /\ UNCHANGED <<clock, convs, pendingMessages, aborts, normVars>>

\* the leaf a caller passes: null (-1) with a null conversation, else a message
\* of the conversation; a call the guard turns away reads neither leaf nor extra
LeafInputs(c, content) == IF c = 0 \/ SendGuard(c, content) THEN {-1} ELSE Ids(c)

Next == \/ Tick
        \/ \E c \in convs \cup {0} : \E content \in Texts : \E leaf \in LeafInputs(c, content) : \E extra \in ExtraInputs : sendMessage(c, leaf, content, extra)
        \/ \E c \in ConvIds : stopGenerating(c)
        \/ \E c \in convs : \E m \in Ids(c) : \E content \in {Null, "ed"} : replaceMessage(c, m, content)
        \/ \E c \in convs : \E m \in Ids(c) : \E content \in {Null, "ed"} : \E extra \in ExtraInputs : replaceMessageAndGenerate(c, m, content, extra)
        \/ \E s \in SessionIds : Begin(s)
        \/ \E s \in SessionIds : FetchOk(s)
        \/ \E s \in SessionIds : FetchFail(s)
        \/ \E s \in SessionIds : \E d \in Deltas : \E meta \in MetaInputs(s) : Chunk(s, d, meta)
        \/ \E s \in SessionIds : \E f \in Frames : StreamError(s, f)
        \/ \E s \in SessionIds : StreamEnd(s)
        \/ \E s \in SessionIds : AbortArrive(s)
        \/ \E s \in SessionIds : Commit(s)

Spec == Init /\ [][Next]_vars

\* the same program with its sessions scheduled fairly: a suspended
\* generateMessage is resumed when what it awaits settles (the storage read,
\* the fetch, the end or the failure of the stream, the AbortError, the
\* storage write); a stream may deliver any number of events before it ends
SessionStep(s) == \/ Begin(s)
                  \/ FetchOk(s)
                  \/ FetchFail(s)
                  \/ \E f \in Frames : StreamError(s, f)
                  \/ StreamEnd(s)
                  \/ AbortArrive(s)
                  \/ Commit(s)
SessionsRun == \A s \in SessionIds : WF_vars(SessionStep(s))
SpecFair == Init /\ [][Next]_vars /\ SessionsRun

\* the same program with the history of stopGenerating kept
InitWatch == InitChat /\ BackendOff /\ watch = {"stop"} /\ nin = <<>> /\ nout = NotRun
SpecWatch == InitWatch /\ [][Next]_vars

\* the same program with the result of the latest call kept
InitReturn == InitChat /\ BackendOff /\ watch = {"last"} /\ nin = <<>> /\ nout = NotRun
SpecReturn == InitReturn /\ [][Next]_vars

\* the same program with the deltas of every session kept
InitDeltas == InitChat /\ BackendOff /\ watch = {"deltas"} /\ nin = <<>> /\ nout = NotRun
SpecDeltas == InitDeltas /\ [][Next]_vars

\* the same program with events that carry a model identifier and timings
InitMeta == InitChat /\ BackendOff /\ watch = {"meta"} /\ nin = <<>> /\ nout = NotRun
SpecMeta == InitMeta /\ [][Next]_vars

\* the same program with the error frame that ended a session kept
InitError == InitChat /\ BackendOff /\ watch = {"detail"} /\ nin = <<>> /\ nout = NotRun
SpecError == InitError /\ [][Next]_vars

\* ------------------------------------------- request building on its own
\* the messages handed to normalizeMsgsForAPI: a user or an assistant message
\* with no attachment list or one of up to MaxExtras attachments, alone or
\* after an earlier reply
Attachments == {CtxAtt, TextAtt, ImageAtt, WavAtt, Mp3Att, OggAtt, VideoAtt}
ExtraLists == UNION {[1..n -> Attachments] : n \in 0..MaxExtras}
NormMsgs == {NewMsg(2, 1, role, "hi", extra, 1) : role \in {"user", "assistant"}, extra \in {NoExtra} \cup {Extra(l) : l \in ExtraLists}}
EarlierReply == NewMsg(1, 1, "assistant", "yo", NoExtra, RootId)
NormInputs == {<<m>> : m \in NormMsgs} \cup {<<EarlierReply, m>> : m \in NormMsgs}
InitNorm == InitChat /\ BackendOff /\ watch = {} /\ nin \in NormInputs /\ nout = NotRun
Normalize == /\ ~nout.done
             /\ nout' = [done |-> TRUE, api |-> normalizeMsgsForAPI(nin), utils |-> utilsNormalizeMsgsForAPI(nin)]
             /\ UNCHANGED <<chatVars, watch, nin, backendVars>>
SpecNorm == InitNorm /\ [][Normalize]_vars

\* ------------------------------------------------ the prompt on its own
\* the request builders: generateMessage (src/src/App.tsx) and
\* ApiProvider.v1ChatCompletions (src/src/utils/api.ts), applied to a
\* conversation of MaxNodes messages under the root, an attach leaf and the
\* configured system instruction
MaxNodes == 4
SystemMessages == {"", "sys"}
SystemMsg(systemMessage) == [role |-> "system", parts |-> FALSE, content |-> systemMessage, arr |-> <<>>]
\* App.tsx 374-379
ContextPrompt(store, leaf, systemMessage) == (IF Len(systemMessage) = 0 THEN <<>> ELSE <<SystemMsg(systemMessage)>>) \o normalizeMsgsForAPI(filterByLeafNodeId(store, leaf)).messages
\* utils/api.ts 302-310
ProviderPrompt(messages, systemMessage) == (IF Len(systemMessage) = 0 THEN <<SystemMsg(systemMessage)>> ELSE <<>>) \o utilsNormalizeMsgsForAPI(messages).messages

\* the conversations: node i hangs under an earlier node, user and assistant
\* turns alternate with the depth, children are in creation order
NodeIds == 1..MaxNodes
ParentMaps == {par \in [NodeIds -> 0..(MaxNodes - 1)] : \A i \in NodeIds : par[i] < i}
RECURSIVE Depth(_, _)
Depth(par, i) == IF i = RootId THEN 0 ELSE 1 + Depth(par, par[i])
RECURSIVE InOrder(_)
InOrder(S) == IF S = {} THEN <<>> ELSE LET x == CHOOSE y \in S : \A z \in S : y <= z IN <<x>> \o InOrder(S \ {x})
NodeText(i) == <<"m1", "m2", "m3", "m4", "m5">>[i]
PromptStore(par) == [i \in {RootId} \cup NodeIds |-> IF i = RootId THEN [RootMsg(1) EXCEPT !.children = InOrder({j \in NodeIds : par[j] = RootId})]
                                                      ELSE [NewMsg(i, 1, IF Depth(par, i) % 2 = 1 THEN "user" ELSE "assistant", NodeText(i), NoExtra, par[i]) EXCEPT !.children = InOrder({j \in NodeIds : par[j] = i})]]
PromptNotRun == [done |-> FALSE, context |-> <<>>, provider |-> <<>>]
InitPrompt == InitChat /\ BackendOff /\ watch = {} /\ nout = PromptNotRun /\ nin \in [store : {PromptStore(par) : par \in ParentMaps}, leaf : NodeIds, systemMessage : SystemMessages]
BuildPrompt == /\ ~nout.done
               /\ nout' = [done |-> TRUE, context |-> ContextPrompt(nin.store, nin.leaf, nin.systemMessage), provider |-> ProviderPrompt(filterByLeafNodeId(nin.store, nin.leaf), nin.systemMessage)]
               /\ UNCHANGED <<chatVars, watch, nin, backendVars>>
SpecPrompt == InitPrompt /\ [][BuildPrompt]_vars

\* ------------------------------------------------ the displayed path
\* getListMessageDisplay(msgs, leafNodeId) of the chat screen
\* (src/unnamed/part_005, src/src/components/SettingDialog.tsx)
\* StorageUtils.filterByLeafNodeId(msgs, leafNodeId, true): the chain with the
\* root included
filterByLeafNodeIdWithRoot(m, leaf) == <<m[RootId]>> \o filterByLeafNodeId(m, leaf)
\* a variant that reports the sibling itself
findLeafNodeSelf(m, msgId) == msgId
\* findLeafNode: follow the last child while there is one; -1 for an id that
\* is not in the map
RECURSIVE findLeafNode(_, _)
findLeafNode(m, msgId) == IF msgId \notin DOMAIN m THEN -1 ELSE IF Len(m[msgId].children) = 0 THEN msgId ELSE findLeafNode(m, m[msgId].children[Len(m[msgId].children)])
\* Array.prototype.indexOf: the first position, counted from 0, or -1
indexOf(q, x) == IF \E i \in 1..Len(q) : q[i] = x THEN (CHOOSE i \in 1..Len(q) : q[i] = x /\ \A j \in 1..(i - 1) : q[j] # x) - 1 ELSE -1
Displayed(m, msg) == msg.parent \in DOMAIN m /\ msg.role # "root"
MessageDisplay(m, msg) == [msg |-> msg, siblingLeafNodeIds |-> [k \in 1..Len(m[msg.parent].children) |-> findLeafNode(m, m[msg.parent].children[k])], siblingCurrIdx |-> indexOf(m[msg.parent].children, msg.id)]
getListMessageDisplay(m, leafNodeId) == LET currNodes == SelectSeq(filterByLeafNodeIdWithRoot(m, leafNodeId), LAMBDA msg : Displayed(m, msg))
                                        IN [i \in 1..Len(currNodes) |-> MessageDisplay(m, currNodes[i])]
DisplayNotRun == [done |-> FALSE, res |-> <<>>]
InitDisplay == InitChat /\ BackendOff /\ watch = {} /\ nout = DisplayNotRun /\ nin \in [store : {PromptStore(par) : par \in ParentMaps}, leaf : NodeIds]
Display == /\ ~nout.done
           /\ nout' = [done |-> TRUE, res |-> getListMessageDisplay(nin.store, nin.leaf)]
           /\ UNCHANGED <<chatVars, watch, nin, backendVars>>
SpecDisplay == InitDisplay /\ [][Display]_vars

\* the version switch of a displayed message (ChatMessage.tsx 79-85, 199-227):
\* the button of direction dir (-1 previous, 1 next) on the i-th displayed
\* message hands siblingLeafNodeIds[siblingCurrIdx + dir] to onChangeSibling,
\* which is setCurrNodeId; the screen then recomputes the displayed list for
\* the new cursor. A missing entry (undefined) disables the button.
Directions == {-1, 1}
\* a variant that reads the list one place too low
SiblingAtBelow(r, dir) == IF r.siblingCurrIdx + dir \in 1..Len(r.siblingLeafNodeIds) THEN r.siblingLeafNodeIds[r.siblingCurrIdx + dir] ELSE 0
\* siblingLeafNodeIds[siblingCurrIdx + dir], counted from 0; 0 stands for undefined
SiblingAt(r, dir) == IF r.siblingCurrIdx + dir + 1 \in 1..Len(r.siblingLeafNodeIds) THEN r.siblingLeafNodeIds[r.siblingCurrIdx + dir + 1] ELSE 0
ChangeSibling(i, dir) == /\ nout.done
                         /\ i \in 1..Len(nout.res)
                         /\ SiblingAt(nout.res[i], dir) # 0
                         /\ nin' = [nin EXCEPT !.leaf = SiblingAt(nout.res[i], dir)]
                         /\ nout' = [done |-> TRUE, res |-> getListMessageDisplay(nin.store, nin'.leaf), jump |-> [msg |-> nout.res[i].msg.id, dir |-> dir]]
                         /\ UNCHANGED <<chatVars, watch, backendVars>>
NextJump == \/ Display
            \/ \E i \in 1..MaxNodes : \E dir \in Directions : ChangeSibling(i, dir)
SpecJump == InitDisplay /\ [][NextJump]_vars

\* what the chat screen renders for conversation c with the cursor currNodeId
\* (SettingDialog.tsx 945-956, PendingMessage of part_005): the displayed path,
\* then the pending draft unless the last displayed message has its id
\* (`messages.at(-1)?.msg.id !== pendingMsg.id`)
pendingMsgDisplay(c, messages) == IF c \in DOMAIN pendingMessages /\ (Len(messages) = 0 \/ messages[Len(messages)].msg.id # pendingMessages[c].id) THEN <<pendingMessages[c].id>> ELSE <<>>
RenderedIds(c, currNodeId) == LET messages == getListMessageDisplay(msgs[c], currNodeId)
                              IN [i \in 1..Len(messages) |-> messages[i].msg.id] \o pendingMsgDisplay(c, messages)
\* the values currNodeId takes: -1 after the conversation is opened, else the
\* id of a stored message (set by onChunk or by a version switch, and kept
\* while messages are appended under it)
Cursors(c) == {-1} \cup (DOMAIN msgs[c] \ {RootId})

\* ------------------------------------------------ the provider's request
\* InferenceApiProvider.v1ChatCompletions (src/src/api/inference.ts) from
\* `await fetch` on, with the abort signal of its caller. nin is what the
\* network does: whether a response arrives, its status and the error
\* message of its JSON body (Null for none)
Statuses == {200, 400, 401, 402, 403, 404, 418, 429, 444, 500, 502, 503, 504}
\* const noResponse = new Response(null, { status: 444 })
NoResponseStatus == 444
RequestInputs == [net : {"up", "down"}, status : Statuses, bodyMessage : {Null, "teapot"}]
\* the switch of isErrorResponse
StatusMessage(status, bodyMessage) == CASE status = 400 -> "Bad request"
                                        [] status = 401 -> "Unauthorized"
                                        [] status = 402 -> "Payment required"
                                        [] status = 403 -> "Forbidden"
                                        [] status = 404 -> "Not found"
                                        [] status = 429 -> "Too many requests"
                                        [] status = 444 -> "No response"
                                        [] status = 500 -> "Internal server error"
                                        [] status = 502 -> "Bad gateway"
                                        [] status = 503 -> "Service unavailable"
                                        [] status = 504 -> "Gateway timeout"
                                        [] OTHER -> IF bodyMessage = Null \/ bodyMessage = "" THEN "Unknown error: " \o ToString(status) ELSE bodyMessage
\* pc is the await the call is suspended at ("fetch", "body" for
\* response.json() in isErrorResponse, "stream" for a read of the returned
\* generator) or how it ended; abortedAt is the await at which the caller
\* aborted the signal
RequestStart == [pc |-> "fetch", abortedAt |-> "none", status |-> NoResponseStatus, name |-> "none", message |-> "none"]
InitRequest == InitChat /\ BackendOff /\ watch = {} /\ nin \in RequestInputs /\ nout = RequestStart
\* the caller aborts the signal while the call is suspended
RequestAbort == /\ nout.pc \in {"fetch", "body", "stream"}
                /\ nout.abortedAt = "none"
                /\ nout' = [nout EXCEPT !.abortedAt = nout.pc]
                /\ UNCHANGED <<chatVars, watch, nin, backendVars>>
\* fetch settles: a rejection (AbortError, network failure) is swallowed by
\* the empty catch and fetchResponse stays noResponse; isErrorResponse
\* returns at once for status 200
FetchSettle == /\ nout.pc = "fetch"
               /\ LET status == IF nout.abortedAt # "none" \/ nin.net = "down" THEN nout.status ELSE nin.status
                  IN nout' = [nout EXCEPT !.status = status, !.pc = IF status = 200 THEN "stream" ELSE "body"]
               /\ UNCHANGED <<chatVars, watch, nin, backendVars>>
\* isErrorResponse after `await response.json()`: a body that cannot be read
\* (noResponse has none, an aborted read rejects) counts as {}
ReadBody == /\ nout.pc = "body"
            /\ LET body == IF nout.status = nin.status /\ nin.net = "up" /\ nout.abortedAt = "none" THEN nin.bodyMessage ELSE Null
               IN nout' = [nout EXCEPT !.pc = "thrown", !.name = "Error", !.message = StatusMessage(nout.status, body)]
            /\ UNCHANGED <<chatVars, watch, nin, backendVars>>
\* a read of the generator returned for status 200: it rejects with the
\* AbortError of the signal, or the stream is consumed
StreamRead == /\ nout.pc = "stream"
              /\ nout' = IF nout.abortedAt # "none" THEN [nout EXCEPT !.pc = "thrown", !.name = "AbortError", !.message = "signal is aborted"] ELSE [nout EXCEPT !.pc = "consumed"]
              /\ UNCHANGED <<chatVars, watch, nin, backendVars>>
NextRequest == \/ RequestAbort
               \/ FetchSettle
               \/ ReadBody
               \/ StreamRead
SpecRequest == InitRequest /\ [][NextRequest]_vars

\* ------------------------------------------------ the sync backend
\* POST /api/sync (src/backend/src/routes/sync.ts) over DatabaseService
\* (src/unnamed/part_002). Every `await` of the handler is a step, so the
\* requests of two devices interleave on the one database connection.
MaxNow == 2
MaxStamp == 2
MaxSyncs == 3
MaxDeltaSyncs == 1
UserIds == {1, 2}
Stamps == 1..MaxStamp
\* the rows a client sends: one conversation id and one message id of that
\* conversation; the text of a version names the request that sent it
ConvVersions(tag) == [id : {"c1"}, name : {tag}, updated_at : Stamps, is_deleted : {0, 1}]
MsgVersions(tag) == [id : {"m1"}, conversation_id : {"c1"}, content : {tag}, updated_at : Stamps, is_deleted : {0}]
AtMostOne(S) == {<<>>} \cup {<<x>> : x \in S}
SyncBodies(tag) == [valid : {TRUE}, conversations : AtMostOne(ConvVersions(tag)), messages : AtMostOne(MsgVersions(tag))] \cup {[valid |-> FALSE, conversations |-> <<>>, messages |-> <<>>]}
\* the parameter lists pushed to transactionQueries, conversations first
ConvQuery(userId, convo) == [table |-> "conversations", id |-> convo.id, user_id |-> userId, conversation_id |-> "", text |-> convo.name, updated_at |-> convo.updated_at, is_deleted |-> convo.is_deleted]
MsgQuery(userId, msg) == [table |-> "messages", id |-> msg.id, user_id |-> userId, conversation_id |-> msg.conversation_id, text |-> msg.content, updated_at |-> msg.updated_at, is_deleted |-> msg.is_deleted]
TransactionQueries(userId, body) == [i \in 1..Len(body.conversations) |-> ConvQuery(userId, body.conversations[i])] \o [i \in 1..Len(body.messages) |-> MsgQuery(userId, body.messages[i])]
\* INSERT ... ON CONFLICT(id) DO UPDATE SET text, updated_at, is_deleted
\* WHERE excluded.updated_at > <table>.updated_at
RowOf(q) == [user_id |-> q.user_id, conversation_id |-> q.conversation_id, text |-> q.text, updated_at |-> q.updated_at, is_deleted |-> q.is_deleted]
Upsert(rows, q) == IF q.id \notin DOMAIN rows THEN With(rows, q.id, RowOf(q))
                   ELSE IF q.updated_at > rows[q.id].updated_at THEN [rows EXCEPT ![q.id].text = q.text, ![q.id].updated_at = q.updated_at, ![q.id].is_deleted = q.is_deleted]
                   ELSE rows
\* FOREIGN KEY (conversation_id) REFERENCES conversations (id), with
\* PRAGMA foreign_keys = ON: the insert of a message of an unknown
\* conversation fails
ForeignKeyOk(tbls, q) == q.table = "messages" /\ q.id \notin DOMAIN tbls.messages => q.conversation_id \in DOMAIN tbls.conversations
Execute(tbls, q) == IF q.table = "conversations" THEN [tbls EXCEPT !.conversations = Upsert(@, q)] ELSE [tbls EXCEPT !.messages = Upsert(@, q)]
\* SELECT * FROM <table> WHERE user_id = ? AND updated_at > ?
Select(rows, table, userId, since) == {[table |-> table, id |-> id, user_id |-> rows[id].user_id, text |-> rows[id].text, updated_at |-> rows[id].updated_at, is_deleted |-> rows[id].is_deleted] : id \in {i \in DOMAIN rows : rows[i].user_id = userId /\ rows[i].updated_at > since}}

\* Date.now() of the server advances
ServerTick == /\ now < MaxNow
              /\ now' = now + 1
              /\ UNCHANGED <<chatVars, watch, nin, nout, authVars, tables, txn, reqs, devs>>

\* the response reaches the device: it keeps new_sync_timestamp for its next
\* request. seen (the changes received) and accepted (the changes of its
\* answered requests) are history variables, kept when `watch` names them
EndRequest(d) == [reqs EXCEPT ![d] = IdleReq]
Received(d, changes) == [devs EXCEPT ![d].lastSync = reqs[d].newSyncTimestamp,
                                     ![d].seen = IF "seen" \in watch THEN @ \cup changes ELSE @,
                                     ![d].accepted = IF "accepted" \in watch THEN @ \cup {reqs[d].queries[i] : i \in 1..Len(reqs[d].queries)} ELSE @]

\* lines 18-32 and the loops of 34-79: a body without last_sync_timestamp or
\* client_changes is answered 400; otherwise the statements are collected
\* and, when there are any, DatabaseService.transaction is entered
Tag(d) == <<"device", d>>
Sent == devs[1].sent + devs[2].sent
\* how many requests with changes (or with an invalid body) are served
Budget == IF "seen" \in watch THEN MaxDeltaSyncs ELSE MaxSyncs
SyncStart(d, body) == /\ reqs[d].pc = "idle"
                      /\ (~body.valid \/ Len(TransactionQueries(devs[d].user, body)) > 0) => Sent < Budget
                      /\ devs' = IF ~body.valid \/ Len(TransactionQueries(devs[d].user, body)) > 0 THEN [devs EXCEPT ![d].sent = @ + 1] ELSE devs
                      /\ reqs' = IF ~body.valid THEN EndRequest(d)
                                 ELSE [reqs EXCEPT ![d] = [IdleReq EXCEPT !.pc = IF Len(TransactionQueries(devs[d].user, body)) > 0 THEN "begin" ELSE "conversations",
                                                                          !.queries = TransactionQueries(devs[d].user, body),
                                                                          !.last_sync_timestamp = devs[d].lastSync,
                                                                          !.newSyncTimestamp = now]]
                      /\ UNCHANGED <<chatVars, watch, nin, nout, authVars, now, tables, txn>>

\* await this.db.run('BEGIN TRANSACTION;'): fails when a transaction is open
\* on the connection
TxBegin(d) == /\ reqs[d].pc = "begin"
              /\ IF txn.active
                   THEN reqs' = [reqs EXCEPT ![d].pc = "rollback"] /\ txn' = txn
                   ELSE reqs' = [reqs EXCEPT ![d].pc = "run"] /\ txn' = [active |-> TRUE, saved |-> tables]
              /\ UNCHANGED <<chatVars, watch, nin, nout, authVars, now, tables, devs>>

\* await this.db.run(sql, params) for the next statement of the batch
TxRun(d) == /\ reqs[d].pc = "run"
            /\ LET q == reqs[d].queries[reqs[d].k + 1]
               IN IF ForeignKeyOk(tables, q)
                    THEN /\ tables' = Execute(tables, q)
                         /\ reqs' = [reqs EXCEPT ![d].k = @ + 1, ![d].pc = IF reqs[d].k + 1 = Len(reqs[d].queries) THEN "commit" ELSE "run"]
                    ELSE /\ tables' = tables
                         /\ reqs' = [reqs EXCEPT ![d].pc = "rollback"]
            /\ UNCHANGED <<chatVars, watch, nin, nout, authVars, now, txn, devs>>

\* await this.db.run('COMMIT;'): fails when no transaction is open
TxCommit(d) == /\ reqs[d].pc = "commit"
               /\ IF txn.active
                    THEN reqs' = [reqs EXCEPT ![d].pc = "conversations"] /\ txn' = NoTxn
                    ELSE reqs' = [reqs EXCEPT ![d].pc = "rollback"] /\ txn' = txn
               /\ UNCHANGED <<chatVars, watch, nin, nout, authVars, now, tables, devs>>

\* the catch block of transaction: ROLLBACK undoes whatever was written on
\* the connection since the open BEGIN (it fails when none is open); the
\* error reaches the handler's catch, which answers 500
TxRollback(d) == /\ reqs[d].pc = "rollback"
                 /\ tables' = IF txn.active THEN txn.saved ELSE tables
                 /\ txn' = NoTxn
                 /\ reqs' = EndRequest(d)
                 /\ UNCHANGED <<chatVars, watch, nin, nout, authVars, now, devs>>

\* lines 86-89
SelectConversations(d) == /\ reqs[d].pc = "conversations"
                          /\ reqs' = [reqs EXCEPT ![d].pc = "messages", ![d].serverConversations = Select(tables.conversations, "conversations", devs[d].user, reqs[d].last_sync_timestamp)]
                          /\ UNCHANGED <<chatVars, watch, nin, nout, authVars, now, tables, txn, devs>>

\* lines 91-104: the second select and the 200 response
ServerChanges(d) == reqs[d].serverConversations \cup Select(tables.messages, "messages", devs[d].user, reqs[d].last_sync_timestamp)
SelectMessages(d) == /\ reqs[d].pc = "messages"
                     /\ devs' = Received(d, ServerChanges(d))
                     /\ reqs' = EndRequest(d)
                     /\ UNCHANGED <<chatVars, watch, nin, nout, authVars, now, tables, txn>>

NextSync == \/ \E d \in DeviceIds : \E body \in SyncBodies(Tag(d)) : SyncStart(d, body)
            \/ \E d \in DeviceIds : TxBegin(d)
            \/ \E d \in DeviceIds : TxRun(d)
            \/ \E d \in DeviceIds : TxCommit(d)
            \/ \E d \in DeviceIds : TxRollback(d)
            \/ \E d \in DeviceIds : SelectConversations(d)
            \/ \E d \in DeviceIds : SelectMessages(d)
\* two devices, of one user or of two
InitSyncWith(w) == /\ InitChat
                   /\ watch = w
                   /\ nin = <<>>
                   /\ nout = NotRun
                   /\ AuthOff
                   /\ now = 1
                   /\ tables = EmptyTables
                   /\ txn = NoTxn
                   /\ reqs = [d \in DeviceIds |-> IdleReq]
                   /\ devs \in {[d \in DeviceIds |-> NewDevice(IF d = 1 THEN 1 ELSE u)] : u \in UserIds}
InitSync == InitSyncWith({})
SpecSync == InitSync /\ [][NextSync]_vars

\* delta sync: the same backend with the server clock advancing and the
\* changes each device sent and received kept; every device keeps syncing and
\* the server finishes every request
EmptyBody == [valid |-> TRUE, conversations |-> <<>>, messages |-> <<>>]
NextDeltaSync == \/ ServerTick
                 \/ NextSync
KeepsSyncing == \A d \in DeviceIds : /\ WF_vars(SyncStart(d, EmptyBody))
                                      /\ WF_vars(TxBegin(d))
                                      /\ WF_vars(TxRun(d))
                                      /\ WF_vars(TxCommit(d))
                                      /\ WF_vars(TxRollback(d))
                                      /\ WF_vars(SelectConversations(d))
                                      /\ WF_vars(SelectMessages(d))
InitDeltaSync == InitSyncWith({"seen", "accepted"})
SpecDeltaSync == InitDeltaSync /\ [][NextDeltaSync]_vars /\ KeepsSyncing

\* the same backend with the changes of the answered requests kept
InitLww == InitSyncWith({"accepted"})
SpecLww == InitLww /\ [][NextSync]_vars

\* ------------------------------------------------ the login routes
\* POST /api/auth/request-otp and /verify-otp (src/unnamed/part_001); every
\* `await` of verify-otp is a step
MaxOtps == 2
\* OTP_EXPIRATION_MINUTES, in ticks of the server clock
OtpExpiration == 1
Emails == {"a@x"}
\* crypto.randomInt(100000, 999999).toString(); "" is a missing field
Codes == {"111111", "222222"}

\* request-otp: a fresh code is stored (as its hash) and mailed
RequestOtp(email, otp) == /\ otpSeq < MaxOtps
                          /\ otpSeq' = otpSeq + 1
                          /\ otps' = Append(otps, [id |-> otpSeq + 1, email |-> email, otp_hash |-> otp, expires_at |-> now + OtpExpiration])
                          /\ UNCHANGED <<chatVars, watch, nin, nout, now, tables, txn, reqs, devs, users, verifs, logins>>

\* the clock of the login routes
AuthTick == /\ now < MaxNow
            /\ now' = now + 1
            /\ UNCHANGED <<chatVars, watch, nin, nout, authVars, tables, txn, reqs, devs>>

\* verify-otp, lines 128-133: a body without email or otp is answered 400
VerifyStart(v, email, otp) == /\ verifs[v].pc = "idle"
                              /\ verifs' = IF email = "" \/ otp = "" THEN verifs ELSE [verifs EXCEPT ![v] = [pc |-> "record", email |-> email, otp |-> otp, record |-> 0]]
                              /\ UNCHANGED <<chatVars, watch, nin, nout, now, tables, txn, reqs, devs, otps, otpSeq, users, logins>>

\* SELECT otp_hash, expires_at FROM otps WHERE email = ? ORDER BY id DESC
\* LIMIT 1, then the tests of 144-150
LatestOtp(email) == LET S == {i \in 1..Len(otps) : otps[i].email = email}
                    IN IF S = {} THEN 0 ELSE CHOOSE i \in S : \A j \in S : otps[j].id <= otps[i].id
GetRecord(v) == /\ verifs[v].pc = "record"
                /\ LET i == LatestOtp(verifs[v].email)
                   IN verifs' = IF i = 0 \/ now > otps[i].expires_at THEN [verifs EXCEPT ![v] = IdleVerify]
                                ELSE [verifs EXCEPT ![v].pc = "compare", ![v].record = otps[i]]
                /\ UNCHANGED <<chatVars, watch, nin, nout, now, tables, txn, reqs, devs, otps, otpSeq, users, logins>>

\* await bcrypt.compare(otp, record.otp_hash)
Compare(v) == /\ verifs[v].pc = "compare"
              /\ verifs' = IF verifs[v].otp = verifs[v].record.otp_hash THEN [verifs EXCEPT ![v].pc = "user"] ELSE [verifs EXCEPT ![v] = IdleVerify]
              /\ UNCHANGED <<chatVars, watch, nin, nout, now, tables, txn, reqs, devs, otps, otpSeq, users, logins>>

\* SELECT * FROM users WHERE email = ?
GetUser(v) == /\ verifs[v].pc = "user"
              /\ verifs' = [verifs EXCEPT ![v].pc = IF verifs[v].email \in users THEN "delete" ELSE "insert"]
              /\ UNCHANGED <<chatVars, watch, nin, nout, now, tables, txn, reqs, devs, otps, otpSeq, users, logins>>

\* INSERT INTO users: email is UNIQUE, a second insert fails and the request
\* is answered 500
InsertUser(v) == /\ verifs[v].pc = "insert"
                 /\ users' = users \cup {verifs[v].email}
                 /\ verifs' = IF verifs[v].email \in users THEN [verifs EXCEPT ![v] = IdleVerify] ELSE [verifs EXCEPT ![v].pc = "delete"]
                 /\ UNCHANGED <<chatVars, watch, nin, nout, now, tables, txn, reqs, devs, otps, otpSeq, logins>>

\* DELETE FROM otps WHERE email = ?, then the token is signed and answered
\* with 200. logins is a history variable: the id of the otp row each granted
\* login was checked against
DeleteOtps(v) == /\ verifs[v].pc = "delete"
                 /\ otps' = SelectSeq(otps, LAMBDA r : r.email # verifs[v].email)
                 /\ logins' = logins \o <<verifs[v].record.id>>
                 /\ verifs' = [verifs EXCEPT ![v] = IdleVerify]
                 /\ UNCHANGED <<chatVars, watch, nin, nout, now, tables, txn, reqs, devs, otpSeq, users>>

NextAuth == \/ AuthTick
            \/ \E email \in Emails : \E otp \in Codes : RequestOtp(email, otp)
            \/ \E v \in VerifyIds : \E email \in Emails \cup {""} : \E otp \in Codes \cup {""} : VerifyStart(v, email, otp)
            \/ \E v \in VerifyIds : GetRecord(v)
            \/ \E v \in VerifyIds : Compare(v)
            \/ \E v \in VerifyIds : GetUser(v)
            \/ \E v \in VerifyIds : InsertUser(v)
            \/ \E v \in VerifyIds : DeleteOtps(v)
InitAuth == InitChat /\ BackendOff /\ watch = {} /\ nin = <<>> /\ nout = NotRun
SpecAuth == InitAuth /\ [][NextAuth]_vars

\* =================================================================== claims
Active(s) == sess[s].pc \in {"starting", "fetching", "streaming", "committing"}
Ended(s) == sess[s].pc \in {"done", "failed", "crashed"}
Children(c, id) == msgs[c][id].children
InSeq(x, q) == \E i \in 1..Len(q) : q[i] = x
\* C1: a session that ends by a transport or protocol error the caller did not
\* initiate (non-200 answer, error frame or chunk, failed read, failed request
\* building) appends nothing, however much text its draft holds: it stays
\* failed with no append of its own, and the step that handles the error
\* leaves the graph as it was.
C1_FailureDiscardsDraft == [][\A s \in SessionIds : sess'[s].reason = "error" => /\ sess'[s].pc = "failed"
                                                                                  /\ sess'[s].commits = 0
                                                                                  /\ (sess[s].reason # "error" => msgs' = msgs)]_vars
C1_Witness == \E s \in SessionIds : sess[s].reason = "error" /\ sess[s].pc = "failed" /\ sess[s].content = "aa" /\ Children(sess[s].conv, sess[s].leaf) = <<>>

\* C2: a session that has accumulated non-empty content when stop is called
\* for its conversation ends with exactly one assistant message appended, a
\* child of its attach point, whose content is what the session had
\* accumulated when the cancellation took effect.
C2_CancelCommitsContentAtStop == \A s \in SessionIds : (sess[s].stopped /\ Ended(s)) => /\ sess[s].commits = 1
                                                                                         /\ InSeq(sess[s].pendingId, Children(sess[s].conv, sess[s].leaf))
                                                                                         /\ msgs[sess[s].conv][sess[s].pendingId].role = "assistant"
                                                                                         /\ msgs[sess[s].conv][sess[s].pendingId].content = sess[s].content

\* C3: every conversation has at most one generation session between its
\* begin and its commit or discard.
C3_AtMostOneSessionPerConversation == \A c \in ConvIds : Cardinality({s \in SessionIds : sess[s].conv = c /\ Active(s)}) <= 1

\* C4: stop(A) does not touch a session of another conversation B: B's draft
\* stays in the pending set with its content, no controller of B is aborted,
\* and B's session and the store are as before, so what B commits is the same.
C4_StopLeavesOtherConversations == [][\A a \in ConvIds : stopGenerating(a) => /\ \A b \in ConvIds \ {a} : (b \in DOMAIN pendingMessages <=> b \in DOMAIN pendingMessages') /\ (b \in DOMAIN pendingMessages => pendingMessages'[b] = pendingMessages[b])
                                                                               /\ \A s \in SessionIds : sess[s].conv # a => sess'[s] = sess[s]
                                                                               /\ msgs' = msgs /\ aborts' = aborts]_vars
C4_Witness == \E s, u \in SessionIds : /\ sess[s].aborted /\ sess[s].conv \notin DOMAIN pendingMessages
                                        /\ sess[u].conv # sess[s].conv /\ sess[u].pc = "streaming" /\ ~sess[u].aborted
                                        /\ sess[u].conv \in DOMAIN pendingMessages /\ pendingMessages[sess[u].conv].content = "a"

\* C5: history is append-only: a message that is in the graph keeps its
\* content, role and parent in every later state; an edit is a new id.
C5_AppendOnly == [][\A c \in ConvIds : \A id \in DOMAIN msgs[c] : /\ id \in DOMAIN msgs'[c]
                                                                  /\ msgs'[c][id].content = msgs[c][id].content
                                                                  /\ msgs'[c][id].role = msgs[c][id].role
                                                                  /\ msgs'[c][id].parent = msgs[c][id].parent]_vars
C5_Witness == \E c \in ConvIds : \E i, j \in Ids(c) : i # j /\ msgs[c][i].content = "hi" /\ msgs[c][j].content = "ed" /\ msgs[c][i].parent = msgs[c][j].parent /\ msgs[c][i].role = msgs[c][j].role

\* C6: the tree invariant: every message but the root has a parent in the same
\* conversation that lists it (once) in children, every listed child exists,
\* and the parent links of every message lead to the root.
RECURSIVE Up(_, _, _)
Up(m, id, n) == IF id \notin DOMAIN m THEN -1 ELSE IF m[id].role = "root" \/ n = 0 THEN id ELSE Up(m, m[id].parent, n - 1)
ListedOnce(c, id) == Cardinality({k \in 1..Len(Children(c, msgs[c][id].parent)) : Children(c, msgs[c][id].parent)[k] = id}) = 1
HasParent(c, id) == msgs[c][id].parent \in Ids(c) /\ ListedOnce(c, id) /\ Up(msgs[c], id, Cardinality(Ids(c))) = RootId
ChildrenExist(c, id) == \A k \in 1..Len(Children(c, id)) : Children(c, id)[k] \in Ids(c) /\ msgs[c][Children(c, id)[k]].parent = id
C6_TreeInvariant == \A c \in ConvIds : \A id \in Ids(c) : /\ msgs[c][id].convId = c
                                                          /\ msgs[c][id].id = id
                                                          /\ ChildrenExist(c, id)
                                                          /\ (msgs[c][id].role = "root") = (id = RootId)
                                                          /\ (id = RootId \/ HasParent(c, id))
C6_Witness == \E c \in ConvIds : \E i, j, k \in Ids(c) : /\ msgs[c][i].role = "user" /\ msgs[c][j].role = "assistant" /\ msgs[c][k].role = "assistant"
                                                         /\ Children(c, RootId) = <<i>> /\ Children(c, i) = <<j, k>>

\* C7: a send whose text is blank after trimming, or whose conversation has a
\* session that has begun and not finished, returns false and changes nothing:
\* no conversation, message, draft, controller or session appears or changes.
Busy(cIn) == \E s \in SessionIds : sess[s].conv = cIn /\ Active(s)
TrimmedEmpty(content) == content \in {"", " ", "  "}
C7_RejectedSendHasNoEffect == [][/\ \A cIn \in convs \cup {0} : \A content \in Texts : (Busy(cIn) \/ TrimmedEmpty(content)) =>
                                        \A leaf \in {-1} \cup (IF cIn = 0 THEN {} ELSE Ids(cIn)) : \A extra \in ExtraInputs : sendMessage(cIn, leaf, content, extra) => last' = "false"
                                  /\ (last' = "false" => UNCHANGED <<clock, convs, msgs, pendingMessages, aborts, sess>>)]_vars

\* C8: the boolean sendMessage returns tells whether the call was accepted:
\* true only when the user message was appended and a session was started
\* for it, false only when the call was turned away and the graph is as it
\* was before the call.
C8_SendResultTellsAcceptance == \A s \in SessionIds : sess[s].op = "send" => /\ (sess[s].ret = "true" => sess[s].appended)
                                                                              /\ (sess[s].ret = "false" => ~sess[s].appended)

\* C9: a send or user edit that carries an attachment of unrecognized kind is
\* turned away before any side effect: no request is issued for it and no
\* message with such an attachment enters the graph.
Recognized(e) == e.type \in {"context", "textFile", "imageFile", "audioFile"}
HasUnknown(extra) == \E i \in 1..Len(extra.items) : ~Recognized(extra.items[i])
C9_UnknownAttachmentRejected == /\ \A c \in ConvIds : \A id \in Ids(c) : ~HasUnknown(msgs[c][id].extra)
                                /\ \A s \in SessionIds : (sess[s].conv \in ConvIds /\ sess[s].leaf \in Ids(sess[s].conv) /\ HasUnknown(msgs[sess[s].conv][sess[s].leaf].extra)) => ~sess[s].requested

\* C10: for a user message whose attachment list is present and holds N
\* recognized attachments, the request content has N + 1 parts: part i is the
\* expansion of attachment i, in list order, and the last part is the one
\* text part with the user's own text; a message of another role keeps its
\* content unchanged. Both copies of normalizeMsgsForAPI agree on it.
PartOf(e, p) == CASE e.type = "context" -> p.type = "text" /\ p.text = e.content
                  [] e.type = "textFile" -> p.type = "text" /\ Contains(p.text, e.name) /\ Contains(p.text, e.content)
                  [] e.type = "imageFile" -> p.type = "image_url" /\ p.url = e.content
                  [] e.type = "audioFile" -> p.type = "input_audio" /\ p.data = e.content /\ p.format \in {"wav", "mp3"}
                  [] OTHER -> FALSE
AttachmentsFirst(msg, out) == IF msg.role = "user" /\ msg.extra.present
                                THEN /\ out.parts
                                     /\ Len(out.arr) = Len(msg.extra.items) + 1
                                     /\ \A i \in 1..Len(msg.extra.items) : PartOf(msg.extra.items[i], out.arr[i])
                                     /\ out.arr[Len(out.arr)] = [type |-> "text", text |-> msg.content]
                                ELSE ~out.parts /\ out.content = msg.content /\ out.role = msg.role
AllRecognized(messages) == \A i \in 1..Len(messages) : ~HasUnknown(messages[i].extra) \/ messages[i].role # "user"
PromptOrdering(res) == /\ res.ok = AllRecognized(nin)
                       /\ (res.ok => Len(res.messages) = Len(nin) /\ \A i \in 1..Len(nin) : AttachmentsFirst(nin[i], res.messages[i]))
C10_AttachmentsBeforeText == nout.done => (PromptOrdering(nout.api) /\ PromptOrdering(nout.utils))
C10_Witness == nout.done /\ nout.api.ok /\ Len(nin) = 2 /\ nin[2].role = "user" /\ nin[2].extra.items = <<WavAtt, CtxAtt>> /\ Len(nout.api.messages[2].arr) = 3

\* C11: the message list of a request is the chain of ancestors of the attach
\* leaf, root excluded, in root-to-leaf order, after exactly one system
\* message with the configured instruction when that is non-empty and after
\* no system message when it is empty; for generateMessage and for
\* ApiProvider.v1ChatCompletions.
RECURSIVE Ancestor(_, _, _)
Ancestor(store, id, n) == IF n = 0 THEN id ELSE Ancestor(store, store[id].parent, n - 1)
RECURSIVE DepthOf(_, _)
DepthOf(store, id) == IF store[id].role = "root" THEN 0 ELSE 1 + DepthOf(store, store[id].parent)
IsChainWithSystemPrefix(list, store, leaf, systemMessage) ==
    LET k == IF systemMessage = "" THEN 0 ELSE 1
        n == DepthOf(store, leaf)
    IN /\ Len(list) = k + n
       /\ (k = 1 => list[1] = SystemMsg(systemMessage))
       /\ \A i \in 1..n : /\ list[k + i].role = store[Ancestor(store, leaf, n - i)].role
                           /\ list[k + i].content = store[Ancestor(store, leaf, n - i)].content
C11_PromptIsChainWithSystemPrefix == nout.done => /\ IsChainWithSystemPrefix(nout.context, nin.store, nin.leaf, nin.systemMessage)
                                                  /\ IsChainWithSystemPrefix(nout.provider, nin.store, nin.leaf, nin.systemMessage)

\* C12: the edit of a user message U with a new text, in a conversation with
\* no session that has begun and not finished, appends exactly one user
\* message as the last child of U's parent, starts a session attached at the
\* new message, and leaves every other message (U and its descendants among
\* them) as it was, U still listed under its parent.
NoSession(c) == \A s \in SessionIds : ~(sess[s].conv = c /\ Active(s))
Appended(c, n, role, content, parent) == /\ DOMAIN msgs'[c] = DOMAIN msgs[c] \cup {n}
                                         /\ msgs'[c][n].role = role /\ msgs'[c][n].content = content /\ msgs'[c][n].parent = parent /\ msgs'[c][n].children = <<>>
                                         /\ msgs'[c][parent] = [msgs[c][parent] EXCEPT !.children = Append(@, n)]
                                         /\ \A id \in DOMAIN msgs[c] \ {parent} : msgs'[c][id] = msgs[c][id]
                                         /\ \A d \in ConvIds \ {c} : msgs'[d] = msgs[d]
StartedAt(c, leaf) == \E s \in SessionIds : sess[s].pc = "idle" /\ sess'[s].pc = "starting" /\ sess'[s].conv = c /\ sess'[s].leaf = leaf /\ \A u \in SessionIds \ {s} : sess'[u] = sess[u]
C12_EditUserAppendsSibling == [][\A c \in convs : \A m \in Ids(c) : \A extra \in ExtraInputs :
                                   (msgs[c][m].role = "user" /\ NoSession(c) /\ replaceMessageAndGenerate(c, m, "ed", extra)) =>
                                       \E n \in DOMAIN msgs'[c] \ DOMAIN msgs[c] : Appended(c, n, "user", "ed", msgs[c][m].parent) /\ StartedAt(c, n)]_vars

\* C13: the regeneration of a reply A appends nothing when it starts and
\* attaches its session at A's parent; the prompt of that session ends at A's
\* parent and holds no child of it (so not A); when the session's stream ends
\* with content, exactly one assistant message is appended as the last child
\* of A's parent, after the replies already listed, which stay as they were.
PromptEndsAt(c, leaf) == LET chain == filterByLeafNodeId(msgs[c], leaf)
                         IN /\ (IF leaf = RootId THEN chain = <<>> ELSE Len(chain) > 0 /\ chain[Len(chain)].id = leaf)
                            /\ \A k \in 1..Len(chain) : ~InSeq(chain[k].id, Children(c, leaf))
RegenStarts == \A c \in convs : \A m \in Ids(c) : \A extra \in ExtraInputs :
                   (msgs[c][m].role = "assistant" /\ replaceMessageAndGenerate(c, m, Null, extra)) => (msgs' = msgs /\ (sess' = sess \/ StartedAt(c, msgs[c][m].parent)))
RegenPrompt == \A s \in SessionIds : (sess[s].op = "regen" /\ Begin(s)) => PromptEndsAt(sess[s].conv, sess[s].leaf)
RegenCommits == \A s \in SessionIds : (sess[s].op = "regen" /\ msgs[sess[s].conv][sess[s].leaf].role = "user" /\ sess[s].reason = "end" /\ sess[s].content # Null /\ Commit(s)) => Appended(sess[s].conv, sess[s].pendingId, "assistant", sess[s].content, sess[s].leaf)
C13_RegenerateAddsSibling == [][RegenStarts /\ RegenPrompt /\ RegenCommits]_vars

\* C14: when the stream of a session ends normally after deltas d1..dn, one
\* of them non-empty, the commit appends exactly one assistant message under
\* the attach leaf whose content is d1 \o ... \o dn in arrival order, and
\* removes the conversation's entry from the pending set.
RECURSIVE Concat(_)
Concat(q) == IF q = <<>> THEN "" ELSE q[1] \o Concat(Tail(q))
C14_NormalEndCommitsConcatenation == [][\A s \in SessionIds : (sess[s].reason = "end" /\ Concat(sess[s].deltas) # "" /\ Commit(s)) =>
                                            /\ Appended(sess[s].conv, sess[s].pendingId, "assistant", Concat(sess[s].deltas), sess[s].leaf)
                                            /\ sess[s].conv \notin DOMAIN pendingMessages']_vars

\* C15: no stored message has content null: a session that ends, normally or
\* by cancel, before any text was accumulated commits nothing, and an edit or
\* a regeneration called with content null appends nothing.
C15_NoNullContentStored == /\ \A c \in ConvIds : \A id \in Ids(c) : msgs[c][id].content # Null
                           /\ \A s \in SessionIds : (Ended(s) /\ sess[s].content = Null) => sess[s].commits = 0
C15_Witness == \E s, u \in SessionIds : /\ sess[s].pc = "done" /\ sess[s].reason = "end" /\ sess[s].content = Null
                                         /\ sess[u].pc = "done" /\ sess[u].reason = "abort" /\ sess[u].content = Null /\ sess[u].op = "regen"

\* C16: once stop was called for the conversation of a session, the draft of
\* that session is not in the pending set, in the state right after the call
\* and after every later step of that session, whatever the loop still
\* consumes before the abort arrives.
DraftAfter(s) == [id |-> sess'[s].pendingId, content |-> sess'[s].content, parent |-> sess'[s].leaf]
C16_StoppedDraftStaysRetracted == [][/\ \A c \in ConvIds : stopGenerating(c) => c \notin DOMAIN pendingMessages'
                                     /\ \A s \in SessionIds : (sess[s].aborted /\ sess'[s] # sess[s]) => ~(sess[s].conv \in DOMAIN pendingMessages' /\ pendingMessages'[sess[s].conv] = DraftAfter(s))]_vars

\* C17: a session changes the graph only by its commit, a step taken after
\* its stream has ended, been aborted or failed: no step it takes while it
\* starts, waits for the response or consumes the stream changes the graph,
\* the step that appends is its last one, and it appends at most once.
OwnStep(s) == sess[s].pc # "idle" /\ sess'[s] # sess[s]
C17_CommitAfterStream == [][\A s \in SessionIds : /\ (OwnStep(s) /\ msgs' # msgs) => (sess[s].pc = "committing" /\ sess[s].reason \in {"end", "abort"} /\ sess'[s].pc = "done" /\ sess'[s].commits = 1)
                                                   /\ (Ended(s) => sess'[s] = sess[s])
                                                   /\ sess'[s].commits >= sess[s].commits /\ (sess'[s].commits > sess[s].commits => msgs' # msgs)]_vars
C17_Witness == \E s \in SessionIds : sess[s].pc = "done" /\ sess[s].reason = "abort" /\ sess[s].commits = 1 /\ sess[s].content = "aa" /\ InSeq(sess[s].pendingId, Children(sess[s].conv, sess[s].leaf))

\* C18 as written: for every node on the displayed path the list reported
\* with it is parent.children, same ids in the same order, and the reported
\* index is the position of the node's id in it, so the entry at that index
\* is the node.
OnPath(res, store, leaf) == Len(res) = DepthOf(store, leaf) /\ \A i \in 1..Len(res) : res[i].msg = store[Ancestor(store, leaf, Len(res) - i)]
C18_SiblingListIsChildren == nout.done => /\ OnPath(nout.res, nin.store, nin.leaf)
                                          /\ \A i \in 1..Len(nout.res) : /\ nout.res[i].siblingLeafNodeIds = nin.store[nout.res[i].msg.parent].children
                                                                          /\ nout.res[i].siblingCurrIdx \in 0..(Len(nout.res[i].siblingLeafNodeIds) - 1)
                                                                          /\ nout.res[i].siblingLeafNodeIds[nout.res[i].siblingCurrIdx + 1] = nout.res[i].msg.id

\* C18 amended: the list reported with a node on the displayed path has one
\* entry per entry of parent.children, in the same order: the leaf reached
\* from that child by following last children; the reported index, counted
\* from 0, is the position of the node's id in parent.children.
IsTipOf(store, x, tip) == \E n \in 0..DepthOf(store, tip) : /\ Ancestor(store, tip, n) = x
                                                  /\ store[tip].children = <<>>
                                                  /\ \A k \in 1..n : store[Ancestor(store, tip, k)].children[Len(store[Ancestor(store, tip, k)].children)] = Ancestor(store, tip, k - 1)
C18_SiblingTipsOfChildren == nout.done => /\ OnPath(nout.res, nin.store, nin.leaf)
                                          /\ \A i \in 1..Len(nout.res) : LET sib == nin.store[nout.res[i].msg.parent].children
                                                                              r == nout.res[i]
                                                                          IN /\ Len(r.siblingLeafNodeIds) = Len(sib)
                                                                             /\ \A k \in 1..Len(sib) : r.siblingLeafNodeIds[k] \in DOMAIN nin.store /\ IsTipOf(nin.store, sib[k], r.siblingLeafNodeIds[k])
                                                                             /\ r.siblingCurrIdx \in 0..(Len(sib) - 1)
                                                                             /\ sib[r.siblingCurrIdx + 1] = r.msg.id
C18_Witness == nout.done /\ \E i \in 1..Len(nout.res) : /\ Len(nout.res[i].siblingLeafNodeIds) = 2
                                                          /\ nout.res[i].siblingCurrIdx = 1
                                                          /\ nout.res[i].siblingLeafNodeIds # nin.store[nout.res[i].msg.parent].children

\* C19: once an error frame is decoded from the stream no later event of the
\* stream is applied to the draft, the session ends as a failure, the draft
\* is removed from the pending set, and the caller is notified with the
\* frame's message, or with the generic fallback when the frame has none.
Framed(s) == sess[s].frame # NoFrame
Notified(s) == /\ sess[s].ret = Thrown(s)
               /\ sess[s].frame.message \notin {Null, ""} => sess[s].detail = sess[s].frame.message
               /\ sess[s].frame.message \in {Null, ""} => sess[s].detail = "Unknown error"
C19_ErrorFrameEndsSession == [][\A s \in SessionIds : /\ ((~Framed(s) /\ Framed(s)') => (sess[s].conv \notin DOMAIN pendingMessages' /\ sess'[s].content = sess[s].content /\ msgs' = msgs))
                                                       /\ (Framed(s)' => (sess'[s].pc = "failed" /\ sess'[s].reason = "error" /\ Notified(s)'))
                                                       /\ (Framed(s) => (sess'[s] = sess[s]))]_vars
C19_Witness == \E s \in SessionIds : /\ Framed(s)
                                      /\ sess[s].frame.message = Null
                                      /\ sess[s].detail = "Unknown error"
                                      /\ sess[s].content = "a"
                                      /\ sess[s].pc = "failed"
                                      /\ sess[s].conv \notin DOMAIN pendingMessages

\* C20: a request cancelled by its caller while it waits for the response or
\* for an event of the stream ends as a cancellation (the AbortError of the
\* signal), not as an error, and is never reported as 'No response'.
C20_CancelIsNotAnError == (nout.abortedAt \in {"fetch", "stream"} /\ nout.pc = "thrown") => (nout.name = "AbortError" /\ nout.message # "No response")

\* C21: last-write-wins. When no request is in progress the row stored for
\* an id carries the greatest updated_at among the versions of that id the
\* server answered with 200, whatever the order of the requests; and a
\* statement replaces a stored row only when its updated_at is strictly
\* greater, so a stale or equal-timestamp version leaves the tables as they
\* are.
Rows(table) == IF table = "conversations" THEN tables.conversations ELSE tables.messages
AcceptedFor(table, id) == {q \in UNION {devs[d].accepted : d \in DeviceIds} : q.table = table /\ q.id = id}
Quiet == \A d \in DeviceIds : reqs[d].pc = "idle"
GreatestStored == \A table \in {"conversations", "messages"} : \A id \in {"c1", "m1"} :
                    AcceptedFor(table, id) # {} => /\ id \in DOMAIN Rows(table)
                                                   /\ \A q \in AcceptedFor(table, id) : q.updated_at <= Rows(table)[id].updated_at
                                                   /\ \E q \in AcceptedFor(table, id) : q.updated_at = Rows(table)[id].updated_at
Ran(d) == reqs[d].pc = "run" /\ reqs'[d].k = reqs[d].k + 1
StaleKept(d) == LET q == reqs[d].queries[reqs[d].k + 1]
                IN (q.id \in DOMAIN Rows(q.table) /\ q.updated_at <= Rows(q.table)[q.id].updated_at) => tables' = tables
C21_LastWriteWins == [][(Quiet' => GreatestStored') /\ \A d \in DeviceIds : Ran(d) => StaleKept(d)]_vars

\* C22: delta sync loses nothing. A change the server accepted from one
\* device of a user is eventually received by every other device of that
\* user that keeps syncing with the new_sync_timestamp of its previous
\* response (received as that version or as a later one of the same id).
Got(e, q) == \E r \in devs[e].seen : r.table = q.table /\ r.id = q.id /\ r.updated_at >= q.updated_at
QueriesOf(d) == UNION {{ConvQuery(u, v) : v \in ConvVersions(<<"device", d>>)} \cup {MsgQuery(u, v) : v \in MsgVersions(<<"device", d>>)} : u \in UserIds}
C22_DeltaSyncLosesNothing == \A d \in DeviceIds : \A e \in DeviceIds \ {d} : \A q \in QueriesOf(d) : (q \in devs[d].accepted /\ devs[e].user = devs[d].user) ~> Got(e, q)

\* C30: user isolation. A statement run for a request of user U leaves every
\* row owned by another user as it was, and the server_changes answered to U
\* hold only rows whose user_id is U.
RowsIn(tbls, table) == IF table = "conversations" THEN tbls.conversations ELSE tbls.messages
OthersRowsKept(d) == \A table \in {"conversations", "messages"} : \A id \in DOMAIN RowsIn(tables, table) :
                       RowsIn(tables, table)[id].user_id # devs[d].user => (id \in DOMAIN RowsIn(tables', table) /\ RowsIn(tables', table)[id] = RowsIn(tables, table)[id])
Answered(d) == reqs[d].pc = "messages" /\ reqs'[d].pc = "idle"
C30_UserIsolation == [][\A d \in DeviceIds : (Ran(d) => OthersRowsKept(d)) /\ (Answered(d) => \A r \in ServerChanges(d) : r.user_id = devs[d].user)]_vars

\* C28: DatabaseService.transaction is all-or-nothing per call, also when
\* the batches of two requests interleave on the connection. Stated for the
\* first request with changes of each device, whose rows are told by their
\* text: when it is answered 500 none of its rows is stored, and when it is
\* answered 200 every one of its changes is stored or superseded by a later
\* version.
Failed(d) == reqs[d].pc = "rollback" /\ reqs'[d].pc = "idle"
NoneStored(d, tbls) == \A table \in {"conversations", "messages"} : \A id \in DOMAIN RowsIn(tbls, table) : RowsIn(tbls, table)[id].text # <<"device", d>>
AllStored(d, tbls) == \A i \in 1..Len(reqs[d].queries) : LET q == reqs[d].queries[i]
                                                         IN q.id \in DOMAIN RowsIn(tbls, q.table) /\ RowsIn(tbls, q.table)[q.id].updated_at >= q.updated_at
C28_TransactionAllOrNothing == [][\A d \in DeviceIds : devs[d].sent = 1 => ((Failed(d) => NoneStored(d, tables')) /\ (Answered(d) => AllStored(d, tables')))]_vars

\* C23: each issued one-time password yields at most one successful
\* verify-otp login, also when two verify-otp requests with the same email
\* and code interleave.
LoginsWith(id) == Cardinality({i \in 1..Len(logins) : logins[i] = id})
C23_OtpUsedAtMostOnce == \A id \in 1..MaxOtps : LoginsWith(id) <= 1

\* C24: every append (user send, user edit, assistant edit, session commit)
\* uses an id that is not yet in the store of its conversation.
SendAppends(c) == \E content \in Texts : \E leaf \in LeafInputs(c, content) : \E extra \in ExtraInputs : ~SendGuard(c, content) /\ sendMessage(c, leaf, content, extra)
EditAppends(c) == \E m \in Ids(c) : \E extra \in ExtraInputs : ~isGenerating(c) /\ (replaceMessage(c, m, "ed") \/ replaceMessageAndGenerate(c, m, "ed", extra))
CommitAppends(s) == sess[s].content # Null /\ Commit(s)
C24_AppendUsesFreshId == [][/\ \A c \in convs : (SendAppends(c) \/ EditAppends(c)) => clock \notin Ids(c)
                            /\ \A s \in SessionIds : CommitAppends(s) => sess[s].pendingId \notin Ids(sess[s].conv)]_vars

\* C26: the draft's model name is sticky: once a stream event has set it, no
\* later event of the same session changes or clears it.
C26_ModelNameSticky == [][\A s \in SessionIds : sess[s].model # Null => sess'[s].model = sess[s].model]_vars

\* C25: after the previous or next version of a displayed message is chosen,
\* the cursor is the leaf reached from the chosen sibling by following last
\* children, the displayed path is the path of that leaf, it passes through
\* the chosen sibling and ends at the leaf, and every jump target it reports
\* is again the last-child leaf of the sibling it stands for.
Jumped == nout.done /\ "jump" \in DOMAIN nout
Chosen == LET sib == nin.store[nin.store[nout.jump.msg].parent].children
          IN sib[indexOf(sib, nout.jump.msg) + 1 + nout.jump.dir]
C25_JumpLandsOnSiblingTip == Jumped => /\ indexOf(nin.store[nin.store[nout.jump.msg].parent].children, nout.jump.msg) + 1 + nout.jump.dir \in 1..Len(nin.store[nin.store[nout.jump.msg].parent].children)
                                       /\ IsTipOf(nin.store, Chosen, nin.leaf)
                                       /\ OnPath(nout.res, nin.store, nin.leaf)
                                       /\ \E i \in 1..Len(nout.res) : nout.res[i].msg.id = Chosen
                                       /\ nout.res[Len(nout.res)].msg.id = nin.leaf
                                       /\ \A i \in 1..Len(nout.res) : \A k \in 1..Len(nout.res[i].siblingLeafNodeIds) : IsTipOf(nin.store, nin.store[nout.res[i].msg.parent].children[k], nout.res[i].siblingLeafNodeIds[k])
C25_Witness == Jumped /\ nout.jump.dir = -1 /\ Chosen # nin.leaf /\ Len(nout.res) = 3

\* C27: in every state, for every conversation and every value of the cursor,
\* the rendered list (displayed path, then the pending draft if it is shown)
\* holds no message id twice.
NoDuplicate(q) == \A i, j \in 1..Len(q) : q[i] = q[j] => i = j
C27_NothingRenderedTwice == \A c \in convs : \A currNodeId \in Cursors(c) : NoDuplicate(RenderedIds(c, currNodeId))

\* C29: a conversation that has a pending entry eventually has none, whatever
\* way its session ends (normal end, cancel, stream failure, failed write at
\* commit), so isGenerating(convId) does not stay true forever.
C29_PendingEventuallyRemoved == \A c \in ConvIds : isGenerating(c) ~> ~isGenerating(c)

====
